---------------------------- MODULE Spec2Model ----------------------------
(***************************************************************************)
(* Model of generate_icons.py: one source image is opened, converted to    *)
(* RGBA if needed, and for every entry of ICON_SIZES resized and saved     *)
(* four times into the density's mipmap directory.  The state is the       *)
(* file system under MIPMAP_DIR, the console, the local variables of       *)
(* generate_icons() and its position.  Every statement of the function     *)
(* that touches the file system or the console is one action.              *)
(***************************************************************************)
EXTENDS Integers, Sequences, FiniteSets, TLC

VARIABLES
    pc,           \* position inside generate_icons(): the next statement to run
    idx,          \* position of the for loop in ICON_SIZES.items()
    fileNo,       \* which of the four saves of the loop body is next
    source_img,   \* local variable source_img
    resized_img,  \* local variable resized_img
    stdout,       \* lines printed by this run
    outcome,      \* "running", "returned" (normal return) or "raised" (uncaught exception)
    error,        \* class of the exception raised in this run, "none" if none
    srcFile,      \* the file at SOURCE_ICON
    dirs,         \* densities d whose directory MIPMAP_DIR/mipmap-d exists
    files,        \* files[<<d, name>>]: content of MIPMAP_DIR/mipmap-d/name
    written,      \* history: paths whose save() returned in this run, in order
    made,         \* history: densities whose makedirs() returned in this run, in order
    conversions,  \* history: number of convert('RGBA') calls of this run
    resizes,      \* history: number of resize() calls of this run
    envFault,     \* history: the file system refused a makedirs or a save in this run
    run,          \* number of the current invocation of generate_icons()
    startDirs,    \* history: dirs when this run started
    startFiles,   \* history: files when this run started
    prevClean     \* history: the previous run ended without any failure

vars == <<pc, idx, fileNo, source_img, resized_img, stdout, outcome, error,
          srcFile, dirs, files, written, made, conversions, resizes, envFault,
          run, startDirs, startFiles, prevClean>>

locals == <<idx, fileNo, source_img, resized_img>>
history == <<written, made, conversions, resizes, envFault>>
invocation == <<run, startDirs, startFiles, prevClean, srcFile>>

-----------------------------------------------------------------------------
(* Bounds of the model *)

\* generate_icons() is invoked at most this many times in succession
MaxRuns == 2

-----------------------------------------------------------------------------
(* Program constants *)

ICON_SIZES ==
    << [density |-> "mdpi",    size |-> 48],
       [density |-> "hdpi",    size |-> 72],
       [density |-> "xhdpi",   size |-> 96],
       [density |-> "xxhdpi",  size |-> 144],
       [density |-> "xxxhdpi", size |-> 192] >>

\* faulty variant: the second save reuses the first save's file name
OutputFilesDuplicateName ==
    << [name |-> "ic_launcher.png",        fmt |-> "PNG"],
       [name |-> "ic_launcher.png",        fmt |-> "PNG"],
       [name |-> "ic_launcher.webp",       fmt |-> "WEBP"],
       [name |-> "ic_launcher_round.webp", fmt |-> "WEBP"] >>

\* faulty variant: the WEBP files are saved before the PNG files
OutputFilesWebpFirst ==
    << [name |-> "ic_launcher.webp",       fmt |-> "WEBP"],
       [name |-> "ic_launcher_round.webp", fmt |-> "WEBP"],
       [name |-> "ic_launcher.png",        fmt |-> "PNG"],
       [name |-> "ic_launcher_round.png",  fmt |-> "PNG"] >>

\* the four saves of the loop body, in statement order
OUTPUT_FILES ==
    << [name |-> "ic_launcher.png",        fmt |-> "PNG"],
       [name |-> "ic_launcher_round.png",  fmt |-> "PNG"],
       [name |-> "ic_launcher.webp",       fmt |-> "WEBP"],
       [name |-> "ic_launcher_round.webp", fmt |-> "WEBP"] >>

-----------------------------------------------------------------------------
(* The environment: source files and directory trees the program may meet *)

Densities == {"mdpi", "hdpi", "xhdpi", "xxhdpi", "xxxhdpi"}
LauncherNames == {"ic_launcher.png", "ic_launcher_round.png",
                  "ic_launcher.webp", "ic_launcher_round.webp"}
\* a file of the resource tree the generator has nothing to do with
ForeignName == "ic_launcher_foreground.png"
Names == LauncherNames \cup {ForeignName}
Paths == Densities \X Names

SrcModes == {"RGBA", "RGB", "L"}
SrcShapes == { <<48, 48>>, <<200, 100>> }

NoImage == [mode |-> "none", w |-> 0, h |-> 0, origin |-> "none",
            loaded |-> FALSE, masked |-> FALSE]
NoFile == [state |-> "absent", fmt |-> "none", mode |-> "none", w |-> 0, h |-> 0,
           origin |-> "none", masked |-> FALSE]

\* kind: "absent"      no file at SOURCE_ICON
\*       "unreadable"  the file is not an image Pillow identifies
\*       "truncated"   the header is valid, the pixel data is not
\*       "ok"          a complete image
SourceFiles ==
    { [kind |-> "absent", mode |-> "none", w |-> 0, h |-> 0],
      [kind |-> "unreadable", mode |-> "none", w |-> 0, h |-> 0] }
    \cup { [kind |-> k, mode |-> m, w |-> s[1], h |-> s[2]] :
              k \in {"truncated", "ok"}, m \in SrcModes, s \in SrcShapes }

SizeOf(d) == (CHOOSE e \in {ICON_SIZES[j] : j \in 1..Len(ICON_SIZES)} : e.density = d).size

\* an icon file left by an earlier generation from another source image
OldIcon(d, n) ==
    [state |-> "complete",
     fmt |-> IF n \in {"ic_launcher.webp", "ic_launcher_round.webp"} THEN "WEBP" ELSE "PNG",
     mode |-> "RGBA", w |-> SizeOf(d), h |-> SizeOf(d), origin |-> "old", masked |-> FALSE]

EmptyTree == [dirs |-> {}, files |-> [p \in Paths |-> NoFile]]
\* what an earlier generation from another source left when its sixth save
\* failed, plus a foreign file
InterruptedTree ==
    [dirs |-> {"mdpi", "hdpi"},
     files |-> [p \in Paths |->
                  CASE p[1] = "mdpi" -> OldIcon(p[1], p[2])
                    [] p = <<"hdpi", "ic_launcher.png">> -> OldIcon(p[1], p[2])
                    [] p = <<"hdpi", "ic_launcher_round.png">> ->
                          [NoFile EXCEPT !.state = "partial", !.fmt = "PNG"]
                    [] OTHER -> NoFile]]
\* the output of an earlier generation, plus a foreign file
OldTree ==
    [dirs |-> Densities,
     files |-> [p \in Paths |-> IF p[2] \in LauncherNames \/ p = <<"mdpi", ForeignName>>
                                THEN OldIcon(p[1], p[2]) ELSE NoFile]]
InitialTrees == {EmptyTree, InterruptedTree, OldTree}

-----------------------------------------------------------------------------
(* Console lines *)

Line(kind, d, n, w, h) == [kind |-> kind, density |-> d, name |-> n, w |-> w, h |-> h]
LoadingLine == Line("Loading", "", "", 0, 0)
SourceSizeLine(img) == Line("SourceSize", "", "", img.w, img.h)
ErrorLine(err) == Line("Error", "", err, 0, 0)
GeneratingLine(e) == Line("Generating", e.density, "", e.size, e.size)
SavedLine(p) == Line("Saved", p[1], p[2], 0, 0)
SuccessLine == Line("Success", "", "", 0, 0)

-----------------------------------------------------------------------------
(* Pillow and os, as generate_icons() uses them *)

\* Image.open(SOURCE_ICON): identifies the file from its header and reads no
\* pixel data; the result is the exception class raised, or "ok"
OpenResult(f) ==
    CASE f.kind = "absent"     -> "FileNotFoundError"
      [] f.kind = "unreadable" -> "UnidentifiedImageError"
      [] OTHER                 -> "ok"

Opened(f) == [mode |-> f.mode, w |-> f.w, h |-> f.h, origin |-> "icon",
              loaded |-> FALSE, masked |-> FALSE]

\* faulty variant: `except UnidentifiedImageError`
CatchesImageErrorsOnly(err) == err = "UnidentifiedImageError"

\* `except Exception`: every exception class of the model derives from Exception
ExceptClauseCatches(err) ==
    err \in {"FileNotFoundError", "UnidentifiedImageError", "PermissionError",
             "FileExistsError", "OSError"}

\* Image.load(), called by convert() and resize(), decodes the pixel data the
\* first time it is needed and raises OSError when the data is truncated
LoadRaises(img, f) == ~img.loaded /\ f.kind = "truncated"

\* faulty variant: the mode test never asks for a conversion
NeverConvert(img) == FALSE

NeedsConvert(img) == img.mode # "RGBA"

Convert(img) == [img EXCEPT !.mode = "RGBA", !.loaded = TRUE]

\* faulty variant: the height follows the source's aspect ratio
ResizeKeepingAspect(img, size) ==
    [img EXCEPT !.w = size, !.h = (img.h * size) \div img.w, !.loaded = TRUE]

\* resize((size, size), LANCZOS): a new image of exactly size x size
Resize(img, size) == [img EXCEPT !.w = size, !.h = size, !.loaded = TRUE]

\* the encoded file save() produces from a bitmap
Encode(img, fmt) ==
    [state |-> "complete", fmt |-> fmt, mode |-> img.mode, w |-> img.w, h |-> img.h,
     origin |-> img.origin, masked |-> img.masked]

\* faulty variant: the round icons are saved through a circular mask
SaveFileMasked(fs, path, img, fmt) ==
    [fs EXCEPT ![path] =
        IF path[2] \in {"ic_launcher_round.png", "ic_launcher_round.webp"}
        THEN Encode([img EXCEPT !.masked = TRUE], fmt)
        ELSE Encode(img, fmt)]

\* resized_img.save(path, fmt, ...): the file at path is replaced
SaveFile(fs, path, img, fmt) == [fs EXCEPT ![path] = Encode(img, fmt)]

\* a save() that fails while writing leaves an incomplete file; a Pillow that
\* cleans up removes the file again when the save had created it
PartialFile(fmt) == [NoFile EXCEPT !.state = "partial", !.fmt = fmt]
AfterFailedWrite(old, fmt) ==
    {PartialFile(fmt)} \cup (IF old.state = "absent" THEN {NoFile} ELSE {})

\* faulty variant: makedirs without exist_ok
ExistNotOk == FALSE

EXIST_OK == TRUE

\* os.makedirs(output_dir, exist_ok=EXIST_OK); permitted: the file system allows it
MakedirsResult(ds, d, permitted) ==
    IF ~permitted THEN "PermissionError"
    ELSE IF d \in ds /\ ~EXIST_OK THEN "FileExistsError"
    ELSE "ok"

\* what the file system may answer to a save(): success, a refusal to open the
\* file, or a failure while writing it
SaveOutcomes == {"ok", "PermissionError", "OSError"}

-----------------------------------------------------------------------------
(* generate_icons() *)

CurrentEntry == ICON_SIZES[idx]
CurrentOutput == OUTPUT_FILES[fileNo]
CurrentPath == <<CurrentEntry.density, CurrentOutput.name>>

\* faulty variant: the loop leaves out the last table entry
LoopStopsEarly(i) == i < Len(ICON_SIZES)

LoopHasNext(i) == i <= Len(ICON_SIZES)

\* faulty variant: the failed statement is attempted again
RetryStep(err) ==
    /\ error' = err
    /\ UNCHANGED <<pc, outcome>>

\* an exception nothing catches ends generate_icons() at once
Raise(err) ==
    /\ pc' = "done"
    /\ outcome' = "raised"
    /\ error' = err

Init ==
    /\ pc = "start"
    /\ idx = 1
    /\ fileNo = 1
    /\ source_img = NoImage
    /\ resized_img = NoImage
    /\ stdout = << >>
    /\ outcome = "running"
    /\ error = "none"
    /\ srcFile \in SourceFiles
    /\ \E t \in InitialTrees :
          /\ dirs = t.dirs
          /\ files = t.files
          /\ startDirs = t.dirs
          /\ startFiles = t.files
    /\ written = << >>
    /\ made = << >>
    /\ conversions = 0
    /\ resizes = 0
    /\ envFault = FALSE
    /\ run = 1
    /\ prevClean = FALSE

\* print(f"Loading source icon: {SOURCE_ICON}")
PrintLoading ==
    /\ pc = "start"
    /\ stdout' = Append(stdout, LoadingLine)
    /\ pc' = "open"
    /\ UNCHANGED <<locals, outcome, error, dirs, files, history, invocation>>

\* try: Image.open / print size   except Exception: print error; return
TryOpen ==
    /\ pc = "open"
    /\ LET r == OpenResult(srcFile) IN
         IF r = "ok"
         THEN /\ source_img' = Opened(srcFile)
              /\ stdout' = Append(stdout, SourceSizeLine(Opened(srcFile)))
              /\ pc' = "convert"
              /\ UNCHANGED <<outcome, error>>
         ELSE IF ExceptClauseCatches(r)
         THEN /\ stdout' = Append(stdout, ErrorLine(r))
              /\ pc' = "done"
              /\ outcome' = "returned"
              /\ error' = r
              /\ UNCHANGED source_img
         ELSE /\ Raise(r)
              /\ UNCHANGED <<source_img, stdout>>
    /\ UNCHANGED <<idx, fileNo, resized_img, dirs, files, history, invocation>>

\* if source_img.mode != 'RGBA': source_img = source_img.convert('RGBA')
ConvertIfNeeded ==
    /\ pc = "convert"
    /\ IF ~NeedsConvert(source_img)
       THEN /\ pc' = "loop"
            /\ UNCHANGED <<source_img, conversions, outcome, error>>
       ELSE IF LoadRaises(source_img, srcFile)
       THEN /\ Raise("OSError")
            /\ UNCHANGED <<source_img, conversions>>
       ELSE /\ source_img' = Convert(source_img)
            /\ conversions' = conversions + 1
            /\ pc' = "loop"
            /\ UNCHANGED <<outcome, error>>
    /\ UNCHANGED <<idx, fileNo, resized_img, stdout, dirs, files, written, made,
                   resizes, envFault, invocation>>

\* for density, size in ICON_SIZES.items(): print(Generating ...)
LoopHead ==
    /\ pc = "loop"
    /\ IF LoopHasNext(idx)
       THEN /\ stdout' = Append(stdout, GeneratingLine(CurrentEntry))
            /\ pc' = "makedirs"
       ELSE /\ pc' = "success"
            /\ UNCHANGED stdout
    /\ UNCHANGED <<locals, outcome, error, dirs, files, history, invocation>>

\* os.makedirs(output_dir, exist_ok=True)
MakeDirs ==
    /\ pc = "makedirs"
    /\ \E permitted \in BOOLEAN :
         LET r == MakedirsResult(dirs, CurrentEntry.density, permitted) IN
           /\ envFault' = (envFault \/ ~permitted)
           /\ IF r = "ok"
              THEN /\ dirs' = dirs \cup {CurrentEntry.density}
                   /\ made' = Append(made, CurrentEntry.density)
                   /\ pc' = "resize"
                   /\ UNCHANGED <<outcome, error>>
              ELSE /\ Raise(r)
                   /\ UNCHANGED <<dirs, made>>
    /\ UNCHANGED <<locals, stdout, files, written, conversions, resizes, invocation>>

\* resized_img = source_img.resize((size, size), Image.Resampling.LANCZOS)
ResizeStep ==
    /\ pc = "resize"
    /\ IF LoadRaises(source_img, srcFile)
       THEN /\ Raise("OSError")
            /\ UNCHANGED <<source_img, resized_img, resizes, fileNo>>
       ELSE /\ resized_img' = Resize(source_img, CurrentEntry.size)
            /\ source_img' = [source_img EXCEPT !.loaded = TRUE]
            /\ resizes' = resizes + 1
            /\ fileNo' = 1
            /\ pc' = "save"
            /\ UNCHANGED <<outcome, error>>
    /\ UNCHANGED <<idx, stdout, dirs, files, written, made, conversions, envFault,
                   invocation>>

\* resized_img.save(path, "PNG", optimize=True) / save(path, "WEBP", quality=95)
Save ==
    /\ pc = "save"
    /\ \E r \in SaveOutcomes :
         /\ envFault' = (envFault \/ r # "ok")
         /\ IF r = "ok"
            THEN /\ files' = SaveFile(files, CurrentPath, resized_img, CurrentOutput.fmt)
                 /\ written' = Append(written, CurrentPath)
                 /\ pc' = "print"
                 /\ UNCHANGED <<outcome, error>>
            ELSE /\ IF r = "OSError"
                    THEN \E c \in AfterFailedWrite(files[CurrentPath], CurrentOutput.fmt) :
                            files' = [files EXCEPT ![CurrentPath] = c]
                    ELSE files' = files
                 /\ Raise(r)
                 /\ UNCHANGED written
    /\ UNCHANGED <<locals, stdout, dirs, made, conversions, resizes, invocation>>

\* print(f"  Saved: {path}"), then the next save or the next density
PrintSaved ==
    /\ pc = "print"
    /\ stdout' = Append(stdout, SavedLine(CurrentPath))
    /\ IF fileNo < Len(OUTPUT_FILES)
       THEN /\ fileNo' = fileNo + 1
            /\ pc' = "save"
            /\ UNCHANGED idx
       ELSE /\ idx' = idx + 1
            /\ pc' = "loop"
            /\ UNCHANGED fileNo
    /\ UNCHANGED <<source_img, resized_img, outcome, error, dirs, files, history,
                   invocation>>

\* print("All icons generated successfully!") and the return that follows it
PrintSuccess ==
    /\ pc = "success"
    /\ stdout' = Append(stdout, SuccessLine)
    /\ pc' = "done"
    /\ outcome' = "returned"
    /\ UNCHANGED <<locals, error, dirs, files, history, invocation>>

\* if __name__ == "__main__": generate_icons() -- after a run that returned, the
\* script is run again on the tree that run left, with the same source file
Rerun ==
    /\ pc = "done"
    /\ outcome = "returned"
    /\ run < MaxRuns
    /\ run' = run + 1
    /\ prevClean' = (outcome = "returned" /\ error = "none")
    /\ startDirs' = dirs
    /\ startFiles' = files
    /\ pc' = "start"
    /\ idx' = 1
    /\ fileNo' = 1
    /\ source_img' = NoImage
    /\ resized_img' = NoImage
    /\ stdout' = << >>
    /\ outcome' = "running"
    /\ error' = "none"
    /\ written' = << >>
    /\ made' = << >>
    /\ conversions' = 0
    /\ resizes' = 0
    /\ envFault' = FALSE
    /\ UNCHANGED <<srcFile, dirs, files>>

\* one statement of generate_icons()
Step ==
    \/ PrintLoading
    \/ TryOpen
    \/ ConvertIfNeeded
    \/ LoopHead
    \/ MakeDirs
    \/ ResizeStep
    \/ Save
    \/ PrintSaved
    \/ PrintSuccess

Next == Step \/ Rerun

Spec == Init /\ [][Next]_vars

\* a started run of the script keeps executing until it returns or raises
FairSpec == Spec /\ WF_vars(Step)

-----------------------------------------------------------------------------
(* Vocabulary of the properties *)

Range(q) == {q[j] : j \in DOMAIN q}
Printed(kind) == {j \in DOMAIN stdout : stdout[j].kind = kind}
Done == pc = "done"
\* the source image loads and the file system refuses nothing
NoFailure == srcFile.kind = "ok" /\ ~envFault

FiveDensities == <<"mdpi", "hdpi", "xhdpi", "xxhdpi", "xxxhdpi">>
FourNames == <<"ic_launcher.png", "ic_launcher_round.png",
               "ic_launcher.webp", "ic_launcher_round.webp">>
\* the 20 output files in the order the specification gives them
ExpectedOrder ==
    [j \in 1..20 |-> <<FiveDensities[((j - 1) \div 4) + 1], FourNames[((j - 1) % 4) + 1]>>]
ExpectedSize(d) ==
    CASE d = "mdpi" -> 48 [] d = "hdpi" -> 72 [] d = "xhdpi" -> 96
      [] d = "xxhdpi" -> 144 [] d = "xxxhdpi" -> 192
\* a complete file this run produced from the source image
FromThisRun(c) == c.state = "complete" /\ c.origin = "icon"

-----------------------------------------------------------------------------
(* Properties *)

\* C1: a run in which the source loads and no directory creation or file write
\* fails ends with exactly 20 files written: every one of the five mipmap
\* directories exists and holds the four launcher files written by the run,
\* and no other file is written or changed.
C1_TwentyFiles ==
    (Done /\ NoFailure) =>
        /\ outcome = "returned"
        /\ Len(written) = 20
        /\ Range(written) = Range(FiveDensities) \X Range(FourNames)
        /\ \A d \in Range(FiveDensities) :
              /\ d \in dirs
              /\ {n \in Names : <<d, n>> \in Range(written)} = Range(FourNames)
              /\ \A n \in Range(FourNames) : FromThisRun(files[<<d, n>>])
        /\ \A p \in Paths \ Range(written) : files[p] = startFiles[p]

C1_Witness ==
    /\ Done /\ NoFailure
    /\ Len(written) = 20
    /\ startDirs = {"mdpi", "hdpi"}
    /\ startFiles[<<"hdpi", "ic_launcher_round.png">>].state = "partial"
    /\ files[<<"mdpi", ForeignName>>].origin = "old"

\* C2: with no file at SOURCE_ICON the run never creates a directory, never
\* writes a file and never prints the success message, and it ends by
\* returning normally with an error line printed.
C2_AbsentSource ==
    srcFile.kind = "absent" =>
        /\ dirs = startDirs
        /\ files = startFiles
        /\ made = << >>
        /\ written = << >>
        /\ Printed("Success") = {}
        /\ outcome # "raised"
        /\ Done => /\ outcome = "returned"
                   /\ Printed("Error") # {}
                   /\ stdout[Len(stdout)].kind = "Error"

C2_Witness ==
    /\ Done
    /\ srcFile.kind = "absent"
    /\ outcome = "returned"
    /\ stdout = <<LoadingLine, ErrorLine("FileNotFoundError")>>

\* C3: every failure to load the source -- no file, an unreadable file, or
\* pixel data that fails to decode when first needed -- ends the run with
\* an error line printed and a normal return.
C3_EveryLoadFailureCaught ==
    (Done /\ srcFile.kind \in {"absent", "unreadable", "truncated"} /\ ~envFault) =>
        /\ outcome = "returned"
        /\ Printed("Error") # {}

\* the state of a run in which a directory creation or a file write has failed
C4_FailedRunState ==
    envFault =>
        /\ Done
        /\ outcome = "raised"
        /\ error \in {"PermissionError", "OSError"}
        /\ Printed("Success") = {}
        /\ Cardinality(Printed("Saved")) = Len(written)
        /\ Cardinality(Printed("Generating")) \in {Len(made), Len(made) + 1}
        /\ dirs = startDirs \cup Range(made)
        /\ \A p \in Range(written) : FromThisRun(files[p])

\* C4: once a directory creation or a file write has failed the run is over
\* with an uncaught exception: nothing more is created, written or printed in
\* that run, the failed step is not attempted again, and what the run wrote
\* before the failure stays in place.
C4_FailureAborts ==
    /\ []C4_FailedRunState
    /\ [][envFault => /\ UNCHANGED <<dirs, files>>
                      /\ (run' = run => UNCHANGED <<stdout, written, made>>)]_vars

C4_Witness ==
    /\ envFault
    /\ Len(written) = 6
    /\ files[<<"hdpi", "ic_launcher.webp">>].state = "partial"

\* C5: every file the run has written into mipmap-<density> holds a bitmap of
\* exactly size x size pixels, size being the density's table entry (48, 72,
\* 96, 144, 192), whatever the width and height of the source image.
C5_ExactSize ==
    /\ \A p \in Range(written) :
          /\ files[p].state = "complete"
          /\ files[p].w = ExpectedSize(p[1])
          /\ files[p].h = ExpectedSize(p[1])
    /\ pc \in {"save", "print"} =>
          /\ resized_img.w = ExpectedSize(CurrentEntry.density)
          /\ resized_img.h = ExpectedSize(CurrentEntry.density)

C5_Witness ==
    /\ srcFile.w # srcFile.h
    /\ <<"xxxhdpi", "ic_launcher_round.webp">> \in Range(written)
    /\ files[<<"xxxhdpi", "ic_launcher_round.webp">>].w = 192
    /\ files[<<"mdpi", "ic_launcher.png">>].h = 48

\* the bitmap a file holds, apart from its encoding
Bitmap(c) == [mode |-> c.mode, w |-> c.w, h |-> c.h, origin |-> c.origin,
              masked |-> c.masked]

\* C6: the files written for one density all hold one and the same resized
\* bitmap, resized once for that density and never masked: the two PNG files
\* are identical and so are the two WEBP files.
C6_OneBitmapPerDensity ==
    /\ resizes \in {Len(made) - 1, Len(made)}
    /\ \A p \in Range(written), q \in Range(written) :
          p[1] = q[1] =>
             /\ Bitmap(files[p]) = Bitmap(files[q])
             /\ ~files[p].masked
             /\ files[p].fmt = files[q].fmt => files[p] = files[q]
    /\ \A d \in Range(FiveDensities) :
          /\ {<<d, "ic_launcher.png">>, <<d, "ic_launcher_round.png">>} \subseteq Range(written)
                => files[<<d, "ic_launcher.png">>] = files[<<d, "ic_launcher_round.png">>]
          /\ {<<d, "ic_launcher.webp">>, <<d, "ic_launcher_round.webp">>} \subseteq Range(written)
                => files[<<d, "ic_launcher.webp">>] = files[<<d, "ic_launcher_round.webp">>]
    /\ pc \in {"save", "print"} =>
          \A p \in Range(written) :
             p[1] = CurrentEntry.density =>
                Bitmap(files[p]) = Bitmap(Encode(resized_img, "PNG"))

C6_Witness ==
    /\ Done
    /\ Len(written) = 20
    /\ resizes = 5
    /\ files[<<"hdpi", "ic_launcher.png">>] = files[<<"hdpi", "ic_launcher_round.png">>]
    /\ files[<<"hdpi", "ic_launcher.png">>].origin = "icon"

\* C7: a source that is not RGBA is converted to RGBA before the first resize,
\* at most once per run, so every resized bitmap and every file written is
\* RGBA whatever the colour mode of the source.
C7_RgbaBeforeResize ==
    /\ conversions <= 1
    /\ (resizes > 0 /\ srcFile.mode # "RGBA") => conversions = 1
    /\ resizes > 0 => /\ source_img.mode = "RGBA"
                      /\ resized_img.mode = "RGBA"
    /\ \A p \in Range(written) : files[p].mode = "RGBA"

C7_Witness ==
    /\ srcFile.mode = "L"
    /\ conversions = 1
    /\ Len(written) = 20
    /\ files[<<"xhdpi", "ic_launcher.webp">>].mode = "RGBA"

\* C8: a run without failure that follows a run without failure on the same
\* source ends without error and leaves exactly the directories and files,
\* with the same contents, that the first run left.
C8_Idempotent ==
    (Done /\ run >= 2 /\ prevClean /\ ~envFault) =>
        /\ outcome = "returned"
        /\ error = "none"
        /\ Len(written) = 20
        /\ dirs = startDirs
        /\ files = startFiles

C8_Witness ==
    /\ Done /\ run = 2 /\ prevClean /\ ~envFault
    /\ Len(written) = 20
    /\ files[<<"mdpi", "ic_launcher.png">>] = startFiles[<<"mdpi", "ic_launcher.png">>]
    /\ FromThisRun(files[<<"mdpi", "ic_launcher.png">>])

IsSaved(l) == l.kind = "Saved"

\* C9: the files written so far are a prefix of the fixed sequence of 20
\* (densities in table order, the four names in statement order), each in a
\* directory ensured earlier in the run and after its density's resize, and
\* the Saved lines printed name the files written, in order, all of them or
\* all but the last.
C9_FixedOrder ==
    /\ Len(written) <= 20
    /\ \A j \in DOMAIN written : written[j] = ExpectedOrder[j]
    /\ Len(made) <= 5
    /\ \A j \in DOMAIN made : made[j] = FiveDensities[j]
    /\ \A p \in Range(written) : p[1] \in Range(made) /\ p[1] \in dirs
    /\ resizes \in {Len(made) - 1, Len(made)}
    /\ Len(written) <= 4 * resizes
    /\ Len(written) >= 4 * (Len(made) - 1)
    /\ LET saved == SelectSeq(stdout, IsSaved) IN
          /\ Len(saved) \in {Len(written) - 1, Len(written)}
          /\ \A j \in DOMAIN saved : saved[j] = SavedLine(written[j])

C9_Witness ==
    /\ Len(written) = 7
    /\ Cardinality(Printed("Saved")) = 6
    /\ made = <<"mdpi", "hdpi">>
    /\ written[7] = <<"hdpi", "ic_launcher.webp">>

\* the success message is the last line of a run that wrote all 20 files
C10_SuccessOnlyAtEnd ==
    /\ Cardinality(Printed("Success")) <= 1
    /\ Printed("Success") # {} =>
          /\ Done
          /\ outcome = "returned"
          /\ stdout[Len(stdout)].kind = "Success"
          /\ Len(written) = 20
          /\ Range(written) = Range(FiveDensities) \X Range(FourNames)
          /\ NoFailure
          /\ error = "none"

\* C10: the success message is printed at most once per run and only when all
\* 20 files have been written by the run, never on a run with a failed load,
\* directory creation or write; every run terminates, and a run without
\* failure terminates with the message printed.
C10_SuccessMessage ==
    /\ []C10_SuccessOnlyAtEnd
    /\ [](~Done => <>Done)
    /\ []((Done /\ NoFailure) => Printed("Success") # {})

C10_Witness ==
    /\ Done
    /\ run = 2
    /\ NoFailure
    /\ Printed("Success") # {}
    /\ Cardinality(Printed("Saved")) = 20

=============================================================================
